---- MODULE Spec2Model ----
(***************************************************************************)
(* Model of AutotraderAPI (src/api_handler.py): run_query drives           *)
(* build_subqueries (the adaptive forward search over price ranges) and    *)
(* run_subqueries (a process pool mapping make_request over the emitted    *)
(* sub-ranges).                                                            *)
(*                                                                         *)
(* The remote API is the environment.  A probe is answered from a          *)
(* `density`: a sequence of segments <<lo, hi, every, mult>>, each holding *)
(* mult listings at every `every`-th price of lo..hi.  A fetch is answered *)
(* by a stub that, for one chosen sub-range, returns a number of empty     *)
(* bodies before its final answer.                                         *)
(*                                                                         *)
(* Python's int(a / b * c) is modelled as the exact quotient truncated     *)
(* toward zero.  sub_step_count (lines 81, 85, 155) is written but never   *)
(* read by the program and is left out.                                    *)
(***************************************************************************)
EXTENDS Integers, Sequences, FiniteSets, TLC

\* ---------------------------------------------------------------- constants
record_request_threshold == 3800
slack_margin == 1000
min_step_size == 500
retry_count_init == 5
processes == 4
default_zip == 66501

\* ------------------------------------------------------------------- bounds
MaxFlakyIndex == 2
MaxEmptyCalls == 6

\* ------------------------------------------------------------------- inputs
Lows == {0, 20000}
Highs == {60000, 150000}
Densities ==
  { << >>,
    << <<0, 149999, 3, 1>> >>,
    << <<0, 149999, 50, 1>> >>,
    << <<0, 149999, 300, 1>> >>,
    << <<0, 150000, 40, 1>>, <<5, 245, 5, 1>> >>,
    << <<0, 19999, 5, 2>>, <<100000, 149999, 5, 1>> >>,
    << <<0, 149999, 25, 1>>, <<9999, 9999, 1, 5000>> >>,
    << <<0, 59999, 20, 3>>, <<29999, 29999, 1, 3000>> >>,
    << <<0, 999, 1, 40>>, <<1000, 149999, 15, 1>> >>,
    << <<0, 139999, 28, 1>>, <<140000, 149999, 1, 3>> >>,
    << <<0, 149999, 4, 1>>, <<10500, 10500, 1, 1300>>,
       <<100000, 149999, 4, 1>> >>,
    << <<0, 18900, 5, 2>> >> }
PoolSizes == {1, processes}
FinalAnswers == {"ok", "nolistings", "malformed"}

\* ------------------------------------------------------------ pure helpers
Min(a, b) == IF a < b THEN a ELSE b
Max(a, b) == IF a > b THEN a ELSE b
Abs(a) == IF a < 0 THEN -a ELSE a

\* int((a / c) * b) for a >= 0 and c > 0: the product a * b divided by c,
\* truncated toward zero, computed without forming a * b
MulTrunc(a, b, c) ==
  LET m == Abs(b)
      q == a * (m \div c) + (a * (m % c)) \div c
  IN IF b >= 0 THEN q ELSE -q

\* int(a / 2)
Half(a) == IF a >= 0 THEN a \div 2 ELSE -((-a) \div 2)

\* listings of segment seg = <<lo, hi, every, mult>> priced within a..b:
\* mult listings at each of the prices lo, lo + every, ... up to hi
SegCount(seg, a, b) ==
  LET a2 == Max(a, seg[1])
      b2 == Min(b, seg[2])
  IN IF a2 > b2 THEN 0
     ELSE seg[4] * (((b2 - seg[1]) \div seg[3])
                      - ((a2 - 1 - seg[1]) \div seg[3]))

RECURSIVE SumSegs(_, _, _, _)
SumSegs(d, i, a, b) ==
  IF i > Len(d) THEN 0 ELSE SegCount(d[i], a, b) + SumSegs(d, i + 1, a, b)

\* totalResultCount the API reports for minPrice = a, maxPrice = b
Count(d, a, b) == SumSegs(d, 1, a, b)

\* ------------------------------------------------------------------- state
VARIABLES
  pc,
  density,
  main_query_params,
  subquery_params,
  price_subqueries,
  total_remaining_records,
  next_price_step,
  highest_seen_current,
  subquery_available_records,
  subqueries_params,
  pool_size,
  stub,
  tasks,
  map_result,
  map_index,
  all_listings

buildVars == <<density, main_query_params, subquery_params, price_subqueries,
               total_remaining_records, next_price_step, highest_seen_current,
               subquery_available_records>>
fetchVars == <<subqueries_params, pool_size, stub, tasks, map_result,
               map_index, all_listings>>
vars == <<pc, buildVars, fetchVars>>

None == << >>
Some(v) == <<v>>
IsNone(o) == Len(o) = 0
Val(o) == o[1]

NoStub == [flaky |-> 0, empties |-> 0, final |-> "ok"]

Init ==
  /\ pc = "initial_probe"
  /\ density \in Densities
  /\ \E lo \in Lows, hi \in Highs :
       main_query_params = [minPrice |-> lo, maxPrice |-> hi,
                            numRecords |-> record_request_threshold,
                            zip |-> default_zip]
  /\ subquery_params = [main_query_params EXCEPT !.numRecords = 0]
  /\ price_subqueries = << >>
  /\ total_remaining_records = 0
  /\ next_price_step = 0
  /\ highest_seen_current = None
  /\ subquery_available_records = 0
  /\ subqueries_params = << >>
  /\ pool_size = processes
  /\ stub = NoStub
  /\ tasks = << >>
  /\ map_result = << >>
  /\ map_index = 0
  /\ all_listings = << >>

\* ------------------------------------------------------- build_subqueries
\* lines 70-71: the initial record count of the whole bounding range
InitialProbe ==
  /\ pc = "initial_probe"
  /\ total_remaining_records' =
       Count(density, subquery_params.minPrice, subquery_params.maxPrice)
  /\ pc' = "initial_step"
  /\ UNCHANGED <<density, main_query_params, subquery_params, price_subqueries,
                 next_price_step, highest_seen_current,
                 subquery_available_records, fetchVars>>

\* line 76: int((threshold / total) * maxPrice)
InitialPriceStep(total, maxPrice) ==
  MulTrunc(record_request_threshold, maxPrice, total)

\* lines 76-78: the division raises ZeroDivisionError when total is 0
InitialStep ==
  /\ pc = "initial_step"
  /\ IF total_remaining_records = 0
       THEN /\ pc' = "ZeroDivisionError"
            /\ UNCHANGED <<next_price_step, subquery_params,
                           highest_seen_current>>
       ELSE /\ next_price_step' =
                 InitialPriceStep(total_remaining_records,
                                  subquery_params.maxPrice)
            /\ subquery_params' =
                 [subquery_params EXCEPT !.maxPrice = next_price_step']
            /\ highest_seen_current' = None
            /\ pc' = "probe"
  /\ UNCHANGED <<density, main_query_params, price_subqueries,
                 total_remaining_records, subquery_available_records,
                 fetchVars>>

\* lines 86-90: one probe of the current range
Probe ==
  /\ pc = "probe"
  /\ subquery_available_records' =
       Count(density, subquery_params.minPrice, subquery_params.maxPrice)
  /\ pc' = "decide"
  /\ UNCHANGED <<density, main_query_params, subquery_params, price_subqueries,
                 total_remaining_records, next_price_step,
                 highest_seen_current, fetchVars>>

\* OutOfBand without the test for a count above the threshold
OutOfBand_underOnly(count) ==
  /\ count < record_request_threshold
  /\ record_request_threshold - count > slack_margin

\* OutOfBand without the test for an under-filled range
OutOfBand_overOnly(count) == count > record_request_threshold

\* lines 109-110: the count is too high, or short by more than the slack
OutOfBand(count) ==
  \/ count > record_request_threshold
  \/ /\ count < record_request_threshold
     /\ record_request_threshold - count > slack_margin

\* line 114: int((threshold / count) * step)
RelStep(count, step) == MulTrunc(record_request_threshold, step, count)

\* ForceMinStep without the forcing
ForceMinStep_none(rel, step) == rel

\* lines 117-122: force a minimum change of the step
ForceMinStep(rel, step) ==
  IF Abs(rel - step) < min_step_size
    THEN IF rel < step THEN step - min_step_size
         ELSE IF rel > step THEN step + min_step_size
         ELSE rel
    ELSE rel

\* line 125: limit the step to twice the previous step
CapStep(rel, step) == Min(rel, step * 2)

\* lines 128-133: remember the highest maxPrice seen above the threshold
UpdateHighest(hs, count, curMax) ==
  IF count > record_request_threshold
    THEN IF IsNone(hs) THEN Some(curMax)
         ELSE IF curMax > Val(hs) THEN Some(curMax)
         ELSE hs
    ELSE hs

\* lines 136-138: step back to halfway between curMax and the highest seen
BisectStep(step, hs, curMax) ==
  IF ~IsNone(hs) /\ step > Val(hs)
    THEN Half(Val(hs) - curMax) + curMax
    ELSE step

\* lines 140-144: the next maxPrice of an adjusted range
AdjustedMaxPrice(curMin, step, mainMax) ==
  IF curMin + step > mainMax THEN mainMax ELSE curMin + step

\* NextMinPrice starting the next range on the accepted maxPrice itself
NextMinPrice_same(curMax) == curMax

\* line 161: the minPrice of the range after an accepted one
NextMinPrice(curMax) == curMax + 1

\* lines 162-163: the maxPrice of the range after an accepted one
NextMaxPrice(curMax, step, mainMax) ==
  IF curMax + step < mainMax THEN curMax + step ELSE mainMax

\* StopAtLimit with the test for an empty range made first
StopAtLimit_emptyFirst ==
  /\ pc = "decide"
  /\ subquery_params.maxPrice = main_query_params.maxPrice
  /\ price_subqueries' =
       IF subquery_available_records = 0
         THEN price_subqueries
         ELSE Append(price_subqueries,
                     [minPrice |-> subquery_params.minPrice,
                      maxPrice |-> subquery_params.maxPrice,
                      expected_count |-> subquery_available_records])
  /\ pc' = "built"
  /\ UNCHANGED <<density, main_query_params, subquery_params,
                 total_remaining_records, next_price_step,
                 highest_seen_current, subquery_available_records, fetchVars>>

\* lines 96-102: the upper price limit is reached
StopAtLimit ==
  /\ pc = "decide"
  /\ subquery_params.maxPrice = main_query_params.maxPrice
  /\ price_subqueries' =
       Append(price_subqueries,
              [minPrice |-> subquery_params.minPrice,
               maxPrice |-> subquery_params.maxPrice,
               expected_count |-> subquery_available_records])
  /\ pc' = "built"
  /\ UNCHANGED <<density, main_query_params, subquery_params,
                 total_remaining_records, next_price_step,
                 highest_seen_current, subquery_available_records, fetchVars>>

\* StopWhenEmpty saving the empty range before it stops
StopWhenEmpty_emit ==
  /\ pc = "decide"
  /\ subquery_params.maxPrice # main_query_params.maxPrice
  /\ subquery_available_records = 0
  /\ price_subqueries' =
       Append(price_subqueries,
              [minPrice |-> subquery_params.minPrice,
               maxPrice |-> subquery_params.maxPrice])
  /\ pc' = "built"
  /\ UNCHANGED <<density, main_query_params, subquery_params,
                 total_remaining_records, next_price_step,
                 highest_seen_current, subquery_available_records, fetchVars>>

\* lines 105-106: no more records found
StopWhenEmpty ==
  /\ pc = "decide"
  /\ subquery_params.maxPrice # main_query_params.maxPrice
  /\ subquery_available_records = 0
  /\ pc' = "built"
  /\ UNCHANGED <<buildVars, fetchVars>>

\* Adjust writing the new price under the key minPrice
Adjust_wrongKey ==
  /\ pc = "decide"
  /\ subquery_params.maxPrice # main_query_params.maxPrice
  /\ subquery_available_records # 0
  /\ OutOfBand(subquery_available_records)
  /\ LET count == subquery_available_records
         curMin == subquery_params.minPrice
         curMax == subquery_params.maxPrice
         rel == ForceMinStep(RelStep(count, next_price_step), next_price_step)
         capped == CapStep(rel, next_price_step)
         hs == UpdateHighest(highest_seen_current, count, curMax)
         step == BisectStep(capped, hs, curMax)
     IN /\ next_price_step' = step
        /\ highest_seen_current' = hs
        /\ subquery_params' =
             [subquery_params EXCEPT
                !.minPrice = AdjustedMaxPrice(curMin, step,
                                              main_query_params.maxPrice)]
  /\ pc' = "probe"
  /\ UNCHANGED <<density, main_query_params, price_subqueries,
                 total_remaining_records, subquery_available_records,
                 fetchVars>>

\* lines 109-144: adjust the step and the maxPrice, keep the minPrice
Adjust ==
  /\ pc = "decide"
  /\ subquery_params.maxPrice # main_query_params.maxPrice
  /\ subquery_available_records # 0
  /\ OutOfBand(subquery_available_records)
  /\ LET count == subquery_available_records
         curMin == subquery_params.minPrice
         curMax == subquery_params.maxPrice
         rel == ForceMinStep(RelStep(count, next_price_step), next_price_step)
         capped == CapStep(rel, next_price_step)
         hs == UpdateHighest(highest_seen_current, count, curMax)
         step == BisectStep(capped, hs, curMax)
     IN /\ next_price_step' = step
        /\ highest_seen_current' = hs
        /\ subquery_params' =
             [subquery_params EXCEPT
                !.maxPrice = AdjustedMaxPrice(curMin, step,
                                              main_query_params.maxPrice)]
  /\ pc' = "probe"
  /\ UNCHANGED <<density, main_query_params, price_subqueries,
                 total_remaining_records, subquery_available_records,
                 fetchVars>>

\* lines 146-163: accept the range and move to the next one
Accept ==
  /\ pc = "decide"
  /\ subquery_params.maxPrice # main_query_params.maxPrice
  /\ subquery_available_records # 0
  /\ ~OutOfBand(subquery_available_records)
  /\ LET curMin == subquery_params.minPrice
         curMax == subquery_params.maxPrice
         step == curMax - curMin
     IN /\ price_subqueries' =
             Append(price_subqueries,
                    [minPrice |-> curMin, maxPrice |-> curMax])
        /\ highest_seen_current' = None
        /\ total_remaining_records' =
             total_remaining_records - subquery_available_records
        /\ next_price_step' = step
        /\ subquery_params' =
             [subquery_params EXCEPT
                !.minPrice = NextMinPrice(curMax),
                !.maxPrice = NextMaxPrice(curMax, step,
                                          main_query_params.maxPrice)]
  /\ pc' = "probe"
  /\ UNCHANGED <<density, main_query_params, subquery_available_records,
                 fetchVars>>

\* ------------------------------------------------------------- run_query
\* line 171 and lines 32-35: keep minPrice and maxPrice of every emitted
\* sub-range and overlay them on the main query
CombineParams_minOnly(main, q) ==
  [main EXCEPT !.minPrice = q.minPrice]

\* CombineParams overlaying the probe's numRecords as well
CombineParams_probeCap(main, q) ==
  [main EXCEPT !.minPrice = q.minPrice, !.maxPrice = q.maxPrice,
               !.numRecords = 0]

CombineParams(main, q) ==
  [main EXCEPT !.minPrice = q.minPrice, !.maxPrice = q.maxPrice]

BuildReturn ==
  /\ pc = "built"
  /\ subqueries_params' =
       [i \in 1..Len(price_subqueries) |->
          CombineParams(main_query_params, price_subqueries[i])]
  /\ pc' = "run_subqueries"
  /\ UNCHANGED <<buildVars, pool_size, stub, tasks, map_result, map_index,
                 all_listings>>

\* ---------------------------------------------------------- the fetch stub
\* listings priced at most p
Below(d, p) == Count(d, 0, p)

\* the 'listings' of a well-formed response to query q: the listings priced
\* within q.minPrice..q.maxPrice, at most q.numRecords of them, as one run
\* <<first, last>> of listing numbers in price order
Listings(d, q) ==
  LET c == Min(Count(d, q.minPrice, q.maxPrice), q.numRecords)
      first == Below(d, q.minPrice - 1) + 1
  IN IF c <= 0 THEN << >> ELSE << <<first, first + c - 1>> >>

\* the body of the call-th response to sub-range i
StubResponse(s, i, call) ==
  IF i = s.flaky /\ call <= s.empties THEN "empty"
  ELSE IF i = s.flaky THEN s.final
  ELSE "ok"

Stubs(n) ==
  {NoStub} \cup
  { s \in [flaky : 1..Min(n, MaxFlakyIndex), empties : 0..MaxEmptyCalls,
           final : FinalAnswers] : ~(s.empties = 0 /\ s.final = "ok") }

\* --------------------------------------------------------- run_subqueries
\* lines 202-204: an empty aggregate, a pool, one task per sub-range
StartPool ==
  /\ pc = "run_subqueries"
  /\ all_listings' = << >>
  /\ pool_size' \in PoolSizes
  /\ stub' \in Stubs(Len(subqueries_params))
  /\ tasks' = [i \in 1..Len(subqueries_params) |->
                 [st |-> "queued", retry_count |-> 0, calls |-> 0,
                  result |-> << >>]]
  /\ pc' = "map"
  /\ UNCHANGED <<buildVars, subqueries_params, map_result, map_index>>

Running == {i \in 1..Len(tasks) : tasks[i].st = "running"}

\* line 204 and line 178: a free worker takes the next sub-range in order
TaskStart(i) ==
  /\ pc = "map"
  /\ tasks[i].st = "queued"
  /\ \A j \in 1..(i - 1) : tasks[j].st # "queued"
  /\ Cardinality(Running) < pool_size
  /\ tasks' = [tasks EXCEPT ![i].st = "running",
                            ![i].retry_count = retry_count_init]
  /\ UNCHANGED <<pc, buildVars, subqueries_params, pool_size, stub,
                 map_result, map_index, all_listings>>

\* RetryExhausted giving up one retry early
RetryExhausted_early(rc) == rc <= 0

\* line 188: the retries are used up
RetryExhausted(rc) == rc < 0

\* lines 179-198: one request of make_request and what follows it
Request(i) ==
  /\ pc = "map"
  /\ tasks[i].st = "running"
  /\ LET t == tasks[i]
         call == t.calls + 1
         body == StubResponse(stub, i, call)
     IN tasks' =
          [tasks EXCEPT ![i] =
             IF body = "malformed"
               THEN [t EXCEPT !.calls = call, !.st = "raised"]
             ELSE IF body = "empty"
               THEN IF RetryExhausted(t.retry_count - 1)
                      THEN [t EXCEPT !.calls = call,
                                     !.retry_count = t.retry_count - 1,
                                     !.st = "returned", !.result = << >>]
                      ELSE [t EXCEPT !.calls = call,
                                     !.retry_count = t.retry_count - 1]
             ELSE IF body = "nolistings"
               THEN [t EXCEPT !.calls = call, !.st = "returned",
                              !.result = << >>]
             ELSE [t EXCEPT !.calls = call, !.st = "returned",
                            !.result = Listings(density,
                                                subqueries_params[i])]]
  /\ UNCHANGED <<pc, buildVars, subqueries_params, pool_size, stub,
                 map_result, map_index, all_listings>>

\* MapReturn handing out the results as soon as one task has finished
MapReturn_noBarrier ==
  /\ pc = "map"
  /\ \E i \in 1..Len(tasks) : tasks[i].st \in {"returned", "raised"}
  /\ IF \E i \in 1..Len(tasks) : tasks[i].st = "raised"
       THEN /\ pc' = "FetchError"
            /\ UNCHANGED <<map_result, map_index>>
       ELSE /\ map_result' = [i \in 1..Len(tasks) |-> tasks[i].result]
            /\ map_index' = 1
            /\ pc' = "extend"
  /\ UNCHANGED <<buildVars, subqueries_params, pool_size, stub, tasks,
                 all_listings>>

\* line 204: pool.map returns once every task has finished, and raises the
\* exception of a task that raised
MapReturn ==
  /\ pc = "map"
  /\ \A i \in 1..Len(tasks) : tasks[i].st \in {"returned", "raised"}
  /\ IF \E i \in 1..Len(tasks) : tasks[i].st = "raised"
       THEN /\ pc' = "FetchError"
            /\ UNCHANGED <<map_result, map_index>>
       ELSE /\ map_result' = [i \in 1..Len(tasks) |-> tasks[i].result]
            /\ map_index' = 1
            /\ pc' = "extend"
  /\ UNCHANGED <<buildVars, subqueries_params, pool_size, stub, tasks,
                 all_listings>>

\* ExtendList assigning instead of extending
ExtendList_assign(all, listings) == listings

\* line 205: all_listings.extend(listings)
ExtendList(all, listings) == all \o listings

Extend ==
  /\ pc = "extend"
  /\ map_index <= Len(map_result)
  /\ all_listings' = ExtendList(all_listings, map_result[map_index])
  /\ map_index' = map_index + 1
  /\ UNCHANGED <<pc, buildVars, subqueries_params, pool_size, stub, tasks,
                 map_result>>

\* lines 206-207: the aggregate is returned
Return ==
  /\ pc = "extend"
  /\ map_index > Len(map_result)
  /\ pc' = "done"
  /\ UNCHANGED <<buildVars, fetchVars>>

FetchNext ==
  \/ BuildReturn
  \/ StartPool
  \/ \E i \in 1..Len(tasks) : TaskStart(i)
  \/ \E i \in 1..Len(tasks) : Request(i)
  \/ MapReturn
  \/ Extend
  \/ Return

BuildNext ==
  \/ InitialProbe
  \/ InitialStep
  \/ Probe
  \/ StopAtLimit
  \/ StopWhenEmpty
  \/ Adjust
  \/ Accept

Next == BuildNext \/ FetchNext

\* run_query: build_subqueries followed by run_subqueries
Spec == Init /\ [][Next]_vars

\* build_subqueries alone
BuildSpec == Init /\ [][BuildNext]_vars

\* build_subqueries alone; the interpreter always takes the next step
FairBuildSpec == BuildSpec /\ WF_vars(BuildNext)

\* ================================================================= claims
BoundsLow == main_query_params.minPrice
BoundsHigh == main_query_params.maxPrice
NumEmitted == Len(price_subqueries)

\* number of integer prices within a sub-range
Width(r) == IF r.minPrice <= r.maxPrice THEN r.maxPrice - r.minPrice + 1 ELSE 0

RECURSIVE SumWidth(_, _)
SumWidth(rs, i) == IF i > Len(rs) THEN 0 ELSE Width(rs[i]) + SumWidth(rs, i + 1)

\* count the API reports for sub-range r
Probed(r) == Count(density, r.minPrice, r.maxPrice)

\* every price of the bounding range lies in exactly one sub-range of rs and
\* no sub-range of rs holds a price outside the bounding range
ExactCover(rs) ==
  /\ \A i \in 1..Len(rs) :
       Width(rs[i]) > 0 =>
         BoundsLow <= rs[i].minPrice /\ rs[i].maxPrice <= BoundsHigh
  /\ \A i, j \in 1..Len(rs) :
       (i < j /\ Width(rs[i]) > 0 /\ Width(rs[j]) > 0) =>
         (rs[i].maxPrice < rs[j].minPrice \/ rs[j].maxPrice < rs[i].minPrice)
  /\ SumWidth(rs, 1) = BoundsHigh - BoundsLow + 1

\* C1: when build_subqueries returns, the emitted sub-ranges cover the
\* bounding range exactly: every price in exactly one sub-range, none outside.
C1_Coverage == pc = "built" => ExactCover(price_subqueries)

\* C2: an initial probe reporting 0 records never reaches the division of
\* the initial step, it ends in an empty list of sub-ranges.
C2_NoDivisionByZero ==
  /\ pc # "ZeroDivisionError"
  /\ (pc = "built" /\ Probed(main_query_params) = 0) => NumEmitted = 0

\* C3: once the forward-search loop is entered it eventually breaks.
C3_Terminates == (pc = "probe") ~> (pc = "built")

\* C4: every emitted sub-range except the last one emitted has a probed
\* count of at most the threshold.
C4_ThresholdRespect ==
  \A i \in 1..(NumEmitted - 1) :
    Probed(price_subqueries[i]) <= record_request_threshold

C4_Witness ==
  /\ pc = "built"
  /\ NumEmitted >= 3
  /\ Probed(price_subqueries[NumEmitted]) > record_request_threshold

\* number of listings of a list of runs
RECURSIVE ListLen(_, _)
ListLen(l, i) ==
  IF i > Len(l) THEN 0 ELSE (l[i][2] - l[i][1] + 1) + ListLen(l, i + 1)

\* number of empty bodies the stub serves for sub-range i
EmptiesFor(i) == IF i = stub.flaky THEN stub.empties ELSE 0
FinalFor(i) == IF i = stub.flaky THEN stub.final ELSE "ok"

\* C5: k < 5 empty responses followed by a non-empty one cost k + 1 requests
\* and return its listings; responses that are always empty cost 6 requests
\* and return the empty list without raising.
C5_RetryBound ==
  \A i \in 1..Len(tasks) :
    /\ (tasks[i].st = "returned" /\ EmptiesFor(i) < retry_count_init
          /\ FinalFor(i) = "ok") =>
         /\ tasks[i].calls = EmptiesFor(i) + 1
         /\ tasks[i].result = Listings(density, subqueries_params[i])
    /\ (tasks[i].st # "queued" /\ EmptiesFor(i) > retry_count_init) =>
         /\ tasks[i].st # "raised"
         /\ tasks[i].calls <= retry_count_init + 1
         /\ tasks[i].st = "returned" =>
              (tasks[i].calls = retry_count_init + 1
                 /\ tasks[i].result = << >>)

C5_Witness ==
  /\ stub.flaky = 1
  /\ stub.empties > retry_count_init
  /\ tasks[1].st = "returned"
  /\ tasks[1].calls = retry_count_init + 1

\* what the stub finally answers for sub-range i
FetchAnswer(i) ==
  IF EmptiesFor(i) > retry_count_init \/ FinalFor(i) # "ok"
    THEN << >>
    ELSE Listings(density, subqueries_params[i])

RECURSIVE SumAnswers(_)
SumAnswers(i) ==
  IF i > Len(subqueries_params) THEN 0
  ELSE ListLen(FetchAnswer(i), 1) + SumAnswers(i + 1)

\* C6: the aggregate holds as many listings as the fetches returned in sum,
\* and the listings of every sub-range exactly once, for every pool size
\* and every order of completion.
C6_Aggregation ==
  pc = "done" =>
    /\ ListLen(all_listings, 1) = SumAnswers(1)
    /\ \A i \in 1..Len(subqueries_params) :
         \A k \in 1..Len(FetchAnswer(i)) :
           Cardinality({j \in 1..Len(all_listings) :
                          all_listings[j] = FetchAnswer(i)[k]}) = 1

C6_Witness ==
  /\ pc = "done"
  /\ pool_size = processes
  /\ Len(subqueries_params) > processes
  /\ stub.flaky = 2
  /\ Len(all_listings) = Len(subqueries_params)

\* C7: the failure of one sub-range never puts the whole fetch into an
\* error state.
C7_NoBatchAbort == pc # "FetchError"

Uniform50k == << <<0, 149999, 3, 1>> >>
ConcreteScenario ==
  /\ density = Uniform50k
  /\ BoundsLow = 0
  /\ BoundsHigh = 150000

\* the runs of l are the listings first..last, each once and in order
RECURSIVE Consecutive(_, _, _, _)
Consecutive(l, i, first, last) ==
  IF i > Len(l) THEN first = last + 1
  ELSE l[i][1] = first /\ l[i][1] <= l[i][2]
         /\ Consecutive(l, i + 1, l[i][2] + 1, last)

\* C8: bounds [0, 150000] with 50000 evenly spread listings: the emitted
\* sub-ranges stay within the threshold and cover the bounds, and fetching
\* them with a stub that never fails yields exactly the 50000 listings.
C8_ConcreteScenario ==
  ConcreteScenario =>
    /\ Probed(main_query_params) = 50000
    /\ pc # "ZeroDivisionError"
    /\ pc = "built" =>
         /\ C4_ThresholdRespect
         /\ ExactCover(price_subqueries)
    /\ (pc = "done" /\ stub = NoStub) =>
         /\ ListLen(all_listings, 1) = 50000
         /\ Consecutive(all_listings, 1, 1, 50000)

C8_Witness ==
  /\ ConcreteScenario
  /\ pc = "done"
  /\ stub = NoStub
  /\ NumEmitted = 14
  /\ ListLen(all_listings, 1) = 50000

\* C9: every probed or emitted range lies within the bounds with
\* low <= high.
WellFormed(r) ==
  /\ BoundsLow <= r.minPrice
  /\ r.minPrice <= r.maxPrice
  /\ r.maxPrice <= BoundsHigh

C9_WellFormed ==
  /\ pc \in {"probe", "decide"} => WellFormed(subquery_params)
  /\ \A i \in 1..NumEmitted : WellFormed(price_subqueries[i])

\* C10: the first emitted sub-range starts at the low bound and every later
\* one starts one above the maxPrice of the one before it.
C10_Contiguity ==
  /\ NumEmitted >= 1 => price_subqueries[1].minPrice = BoundsLow
  /\ \A i \in 1..(NumEmitted - 1) :
       price_subqueries[i + 1].minPrice = price_subqueries[i].maxPrice + 1

C10_Witness ==
  /\ pc = "built"
  /\ NumEmitted >= 3
  /\ BoundsLow > 0

\* round(a * b / c) for a, b >= 0 and c > 0, halves rounded up, computed
\* without forming a * b
MulRound(a, b, c) ==
  LET q == a * (b \div c) + (a * (b % c)) \div c
      r == (a * (b % c)) % c
  IN IF 2 * r >= c THEN q + 1 ELSE q

\* the initial step of the specification: the threshold's share of the
\* width of the bounding range
SeedStep == MulRound(record_request_threshold, BoundsHigh - BoundsLow,
                     Probed(main_query_params))

\* C11: the first range the loop probes is [bounds.low, bounds.low + step],
\* step = round(threshold / total * (bounds.high - bounds.low)), its high
\* clamped into the bounding range.
C11_InitialSeed ==
  [][(pc = "initial_step" /\ pc' = "probe") =>
       /\ subquery_params'.minPrice = BoundsLow
       /\ subquery_params'.maxPrice =
            Max(BoundsLow, Min(BoundsLow + SeedStep, BoundsHigh))]_vars

\* the probe just made was out of band and is followed by a re-probe
Correction ==
  /\ pc = "decide"
  /\ subquery_params.maxPrice # BoundsHigh
  /\ subquery_available_records # 0
  /\ OutOfBand(subquery_available_records)

\* C12: once a probe of the current sub-range was above the threshold at
\* highest_seen_current, no later probe of that sub-range has a maxPrice
\* beyond it (the step is bisected instead), for every minPrice.
C12_Bisection ==
  [][(Correction /\ ~IsNone(highest_seen_current')) =>
       subquery_params'.maxPrice <= Val(highest_seen_current')]_vars

\* C13 as stated: every out-of-band probe moves the step by at least 500 in
\* the direction of the correction.
C13_MinimumDelta ==
  [][Correction =>
       IF subquery_available_records > record_request_threshold
         THEN next_price_step' <= next_price_step - min_step_size
         ELSE next_price_step' >= next_price_step + min_step_size]_vars

\* C13 as amended: a probe above the threshold shrinks a positive step by at
\* least 500; an under-filled probe grows it by at least 500 unless the
\* doubling cap or the bisection midpoint limits it, or the relative step
\* equals the step.
C13_MinimumDeltaAmended ==
  [][(Correction /\ next_price_step > 0) =>
       IF subquery_available_records > record_request_threshold
         THEN next_price_step' <= next_price_step - min_step_size
         ELSE \/ next_price_step' >= next_price_step + min_step_size
              \/ next_price_step' = 2 * next_price_step
              \/ /\ ~IsNone(highest_seen_current')
                 /\ next_price_step' =
                      Half(Val(highest_seen_current')
                             - subquery_params.maxPrice)
                        + subquery_params.maxPrice
              \/ /\ RelStep(subquery_available_records, next_price_step)
                      = next_price_step
                 /\ next_price_step' = next_price_step]_vars

\* an under-filled probe whose forced step is cut back by the bisection to
\* less than 500 above the step
C13_Witness ==
  /\ Correction
  /\ next_price_step > 0
  /\ subquery_available_records < record_request_threshold
  /\ ~IsNone(highest_seen_current)
  /\ ForceMinStep(RelStep(subquery_available_records, next_price_step),
                  next_price_step) >= next_price_step + min_step_size
  /\ BisectStep(CapStep(ForceMinStep(RelStep(subquery_available_records,
                                             next_price_step),
                                     next_price_step),
                        next_price_step),
                highest_seen_current, subquery_params.maxPrice)
       < next_price_step + min_step_size

\* the probe just made was in band and is not the last one
InBand ==
  /\ pc = "decide"
  /\ subquery_params.maxPrice # BoundsHigh
  /\ subquery_available_records >= record_request_threshold - slack_margin
  /\ subquery_available_records <= record_request_threshold

\* C14: an in-band probe emits [minPrice, maxPrice], unsets
\* highest_seen_current, makes the accepted width the next step, moves
\* minPrice to maxPrice + 1 and sets the next maxPrice to
\* min(new minPrice + step, bounds.high).
C14_AcceptTransition ==
  [][InBand =>
       /\ price_subqueries' =
            Append(price_subqueries,
                   [minPrice |-> subquery_params.minPrice,
                    maxPrice |-> subquery_params.maxPrice])
       /\ IsNone(highest_seen_current')
       /\ next_price_step' =
            subquery_params.maxPrice - subquery_params.minPrice
       /\ subquery_params'.minPrice = subquery_params.maxPrice + 1
       /\ subquery_params'.maxPrice =
            Min(subquery_params'.minPrice + next_price_step', BoundsHigh)
     ]_vars

\* minPrice and maxPrice of a record
Range(q) == [minPrice |-> q.minPrice, maxPrice |-> q.maxPrice]

Searching == pc \in {"initial_probe", "initial_step", "probe", "decide"}

\* C15: a probe with maxPrice = bounds.high emits [minPrice, maxPrice] and
\* stops, whatever the count; that range stays the last of the result and
\* nothing is probed or emitted after it.
C15_FinalRange ==
  [][/\ (pc = "decide" /\ subquery_params.maxPrice = BoundsHigh) =>
          /\ pc' = "built"
          /\ Len(price_subqueries') = NumEmitted + 1
          /\ SubSeq(price_subqueries', 1, NumEmitted) = price_subqueries
          /\ Range(price_subqueries'[NumEmitted + 1])
               = Range(subquery_params)
     /\ ~Searching =>
          /\ ~Searching'
          /\ price_subqueries' = price_subqueries
          /\ subquery_available_records' = subquery_available_records
     /\ pc = "built" =>
          Len(subqueries_params') = NumEmitted
    ]_vars

C15_Witness ==
  /\ pc = "run_subqueries"
  /\ subquery_params.maxPrice = BoundsHigh
  /\ subquery_available_records = 0
  /\ NumEmitted >= 2
  /\ Range(subqueries_params[NumEmitted]) = Range(subquery_params)

\* C16: a probe below bounds.high that counts 0 stops at once, emits no
\* range, and exactly the sub-ranges accepted before it are returned.
C16_EmptyTermination ==
  [][/\ (pc = "decide" /\ subquery_params.maxPrice # BoundsHigh
           /\ subquery_available_records = 0) =>
          /\ pc' = "built"
          /\ price_subqueries' = price_subqueries
     /\ (pc = "built" /\ subquery_params.maxPrice # BoundsHigh) =>
          /\ Len(subqueries_params') = NumEmitted
          /\ \A i \in 1..NumEmitted :
               /\ Range(subqueries_params'[i]) = Range(price_subqueries[i])
               /\ Probed(price_subqueries[i])
                    >= record_request_threshold - slack_margin
               /\ price_subqueries[i].maxPrice < subquery_params.minPrice
    ]_vars

C16_Witness ==
  /\ pc = "run_subqueries"
  /\ subquery_params.maxPrice # BoundsHigh
  /\ subquery_available_records = 0
  /\ subquery_params.minPrice <= subquery_params.maxPrice
  /\ NumEmitted >= 2
  /\ Len(subqueries_params) = NumEmitted

C18_ForwardSearch ==
  [][/\ subquery_params'.minPrice # subquery_params.minPrice =>
          /\ InBand
          /\ subquery_params'.minPrice > subquery_params.minPrice
     /\ Correction =>
          /\ subquery_params' =
               [subquery_params EXCEPT !.maxPrice = subquery_params'.maxPrice]
          /\ price_subqueries' = price_subqueries
          /\ total_remaining_records' = total_remaining_records
          /\ main_query_params' = main_query_params
    ]_vars

C18_Witness ==
  /\ pc = "probe"
  /\ NumEmitted >= 1
  /\ ~IsNone(highest_seen_current)
  /\ subquery_params.minPrice = price_subqueries[NumEmitted].maxPrice + 1
  /\ subquery_available_records < record_request_threshold - slack_margin

\* the results 1..k of pool.map, one after the other
RECURSIVE ConcatResults(_, _)
ConcatResults(rs, k) ==
  IF k = 0 THEN << >> ELSE ConcatResults(rs, k - 1) \o rs[k]

\* C19: the aggregate is empty until every worker has finished its
\* sub-range, and then holds the whole results of the sub-ranges merged so
\* far, each once; it never holds a part of a result nor the result of a
\* worker that is still running.
C19_JoinBarrier ==
  /\ pc \in {"extend", "done"} =>
       /\ \A i \in 1..Len(tasks) : tasks[i].st = "returned"
       /\ Len(map_result) = Len(tasks)
       /\ \A i \in 1..Len(tasks) :
            /\ map_result[i] = tasks[i].result
            /\ tasks[i].result = FetchAnswer(i)
       /\ map_index \in 1..(Len(map_result) + 1)
       /\ all_listings = ConcatResults(map_result, map_index - 1)
  /\ pc = "done" => map_index = Len(map_result) + 1
  /\ pc \notin {"extend", "done"} => all_listings = << >>

C19_Witness ==
  /\ pc = "extend"
  /\ map_index = 3
  /\ Len(map_result) >= 4
  /\ stub.flaky = 1
  /\ stub.empties = 2
  /\ Len(all_listings) = 2

\* C20: build_subqueries leaves main_query_params as it was, and every
\* fetch query is the main query with the minPrice and maxPrice of one
\* emitted sub-range; numRecords = 0 of the probes is in no fetch query.
C20_BaseQueryPreserved ==
  /\ [][main_query_params' = main_query_params]_vars
  /\ [](\A i \in 1..Len(subqueries_params) :
          /\ subqueries_params[i].numRecords = main_query_params.numRecords
          /\ subqueries_params[i].zip = main_query_params.zip
          /\ DOMAIN subqueries_params[i] = DOMAIN main_query_params
          /\ subqueries_params[i].numRecords # 0
          /\ Range(subqueries_params[i]) = Range(price_subqueries[i]))

C20_Witness ==
  /\ pc = "map"
  /\ Len(subqueries_params) = 3
  /\ BoundsLow > 0
  /\ subquery_params.numRecords = 0
  /\ subqueries_params[3].maxPrice = BoundsHigh
====
